---- MODULE Spec2Model ----
(***************************************************************************)
(* Model of NotificationService (src/utils/notifications.ts) and of its    *)
(* caller in src/app/_layout.tsx.                                          *)
(*                                                                         *)
(* JavaScript strings are sequences of one-character strings, so that      *)
(* trim(), truthiness and the ISO date parse are computed, not assumed.    *)
(* The value undefined (a missing field) is the one-element sequence       *)
(* Undefined, whose element is no character.                               *)
(*                                                                         *)
(* Every asynchronous call of the service is a record in calls[c].  pc is  *)
(* what the invocation is awaiting: a call of the platform, or the promise *)
(* of a method of the service it called itself (lines 60, 96, 189).  One   *)
(* action resolves that await and runs the synchronous code that follows,  *)
(* up to the next await or to the return.  A method of the service that    *)
(* was awaited and has returned leaves its caller suspended until the next *)
(* turn of the microtask queue; that turn is an action of its own.         *)
(***************************************************************************)
EXTENDS Integers, Sequences, FiniteSets, TLC

(***************************************************************************)
(* Bounds of the model.                                                     *)
(***************************************************************************)
\* number of service invocations in one behaviour of overlapping calls
MaxCalls == 3
\* number of invocations in one behaviour that makes one call at a time
MaxSequential == 2
\* furthest reading of the device clock, in ms after the model epoch
MaxNow == 60000

(***************************************************************************)
(* Strings.                                                                 *)
(***************************************************************************)
Undefined == <<"undefined">>
Empty == <<>>

\* JavaScript truthiness of a string-or-undefined value
Truthy(s) == s # Undefined /\ s # Empty

\* The characters String.prototype.trim strips: the WhiteSpace and
\* LineTerminator code points of ECMAScript.  A character that a TLA+ string
\* cannot hold is the one-character string named by its JavaScript escape.
WhiteSpace ==
    { " ", "\t", "\n", "\f", "\r",
      "\\t", "\\n", "\\v", "\\f", "\\r",
      "\\u0009", "\\u000a", "\\u000b", "\\u000c", "\\u000d", "\\u0020",
      "\\u00a0", "\\u1680", "\\u2000", "\\u2001", "\\u2002", "\\u2003",
      "\\u2004", "\\u2005", "\\u2006", "\\u2007", "\\u2008", "\\u2009",
      "\\u200a", "\\u2028", "\\u2029", "\\u202f", "\\u205f", "\\u3000",
      "\\ufeff" }

RECURSIVE TrimStart(_)
TrimStart(s) ==
    IF s = Empty THEN Empty
    ELSE IF Head(s) \in WhiteSpace THEN TrimStart(Tail(s)) ELSE s

RECURSIVE TrimEnd(_)
TrimEnd(s) ==
    IF s = Empty THEN Empty
    ELSE IF s[Len(s)] \in WhiteSpace THEN TrimEnd(SubSeq(s, 1, Len(s) - 1)) ELSE s

\* String.prototype.trim
Trim(s) == TrimEnd(TrimStart(s))

(***************************************************************************)
(* new Date(`${date}T${time}`).getTime(), as the runtime (V8) parses a      *)
(* string.  The string is cut into tokens; the ES5 date-time forms are read *)
(* first,                                                                   *)
(*                                                                         *)
(*   year            YYYY, or a sign and six digits (not -000000)           *)
(*   date            year | year-MM | year-MM-DD                            *)
(*   time            HH:mm | HH:mm:ss | HH:mm:ss.fraction                   *)
(*   zone            Z | +HH:mm | -HH:mm | +HHmm | -HHmm                    *)
(*   string          date | date T time | date T time zone                  *)
(*                                                                         *)
(* and a string that leaves these forms before its T is handed, from the    *)
(* token where it left them, to the legacy parser, which reads numbers,     *)
(* month names, AM/PM, zone names and offsets in any order and skips text   *)
(* in parentheses.  A string that leaves the forms after its T is an        *)
(* Invalid Date, whose getTime() is NaN.                                    *)
(*                                                                         *)
(* A month is 1..12 and a day 1..31 whatever the month (a day beyond the    *)
(* month's length runs over into the next month); 24:00 with nothing after  *)
(* the minutes but zeros is the next midnight; a fraction is cut to         *)
(* milliseconds.  A string with a time and no zone is local time, an ES5    *)
(* string without a time is UTC.  An instant more than 100,000,000 days     *)
(* from 1 January 1970 UTC is NaN as well.                                  *)
(*                                                                         *)
(* An instant is a pair <<day, ms>>: the whole days since the origin of the *)
(* model's time line, midnight UTC of 1 January EpochYear, and the          *)
(* milliseconds into that day.  The program counts milliseconds from 1970   *)
(* in a double; the pair holds every instant a Date can hold in TLC's       *)
(* integers, and the shift of origin cancels out of every comparison the    *)
(* program makes.  The host's zone is a fixed offset from UTC.              *)
(***************************************************************************)
EpochYear == 2030
\* minutes the host's local time is ahead of UTC
HostUtcOffsetMinutes == 0
MsPerDay == 86400000
\* the largest distance of a Date from 1 January 1970 UTC, in days
MaxDays == 100000000
\* MakeDay gives NaN for a year further than this from year 0
MaxYear == 1000000
\* the parser's mark of a field not set (kNone)
None == 2147483647
\* the parser reads no more than this many digits of a number
MaxSignificantDigits == 9
\* the largest zone offset, in seconds, the parser hands on (Smi::kMaxValue
\* of a 64-bit build without pointer compression), in units of 4 s
SmiMaxValueBy4 == 536870911

NaN == <<"NaN">>

DigitVal ==
    ("0" :> 0) @@ ("1" :> 1) @@ ("2" :> 2) @@ ("3" :> 3) @@ ("4" :> 4) @@
    ("5" :> 5) @@ ("6" :> 6) @@ ("7" :> 7) @@ ("8" :> 8) @@ ("9" :> 9)

\* the NUL character, which ends the parser's input
Nul == { "\\0", "\\x00", "\\u0000" }

\* the characters a word is not made of: a word is a run of characters for
\* which IsAsciiAlphaOrAbove holds and IsWhiteSpaceChar does not.  These are
\* the characters below "A" (code 65), which are controls, space,
\* punctuation and digits, and the WhiteSpace code points above it.  The
\* line terminators U+2028 and U+2029 are no WhiteSpace code points, so they
\* are characters of a word like any letter
NotOfWord ==
    { " ", "!", "\"", "#", "$", "%", "&", "'", "(", ")", "*", "+", ",", "-",
      ".", "/", "0", "1", "2", "3", "4", "5", "6", "7", "8", "9", ":", ";",
      "<", "=", ">", "?", "@", "\t", "\n", "\f", "\r",
      "\\b", "\\t", "\\n", "\\v", "\\f", "\\r",
      "\\u0001", "\\u0002", "\\u0003", "\\u0004", "\\u0005", "\\u0006",
      "\\u0007", "\\u0008", "\\u0009", "\\u000a", "\\u000b", "\\u000c",
      "\\u000d", "\\u000e", "\\u000f", "\\u0010", "\\u0011", "\\u0012",
      "\\u0013", "\\u0014", "\\u0015", "\\u0016", "\\u0017", "\\u0018",
      "\\u0019", "\\u001a", "\\u001b", "\\u001c", "\\u001d", "\\u001e",
      "\\u001f", "\\u0020" } \cup Nul
        \cup (WhiteSpace \ {"\\u2028", "\\u2029"})

\* the lower-case letter of an upper-case one, any other character as it is
AsciiAlphaToLower(ch) ==
    CASE ch = "A" -> "a" [] ch = "B" -> "b" [] ch = "C" -> "c"
      [] ch = "D" -> "d" [] ch = "E" -> "e" [] ch = "F" -> "f"
      [] ch = "G" -> "g" [] ch = "H" -> "h" [] ch = "I" -> "i"
      [] ch = "J" -> "j" [] ch = "K" -> "k" [] ch = "L" -> "l"
      [] ch = "M" -> "m" [] ch = "N" -> "n" [] ch = "O" -> "o"
      [] ch = "P" -> "p" [] ch = "Q" -> "q" [] ch = "R" -> "r"
      [] ch = "S" -> "s" [] ch = "T" -> "t" [] ch = "U" -> "u"
      [] ch = "V" -> "v" [] ch = "W" -> "w" [] ch = "X" -> "x"
      [] ch = "Y" -> "y" [] ch = "Z" -> "z" [] OTHER -> ch

\* the end of the input: past the last character, or at a NUL
IsEnd(s, i) == i > Len(s) \/ s[i] \in Nul

RECURSIVE Num(_, _, _)
\* the number written by the n digits of s that start at position i
Num(s, i, n) ==
    IF n = 0 THEN 0 ELSE Num(s, i, n - 1) * 10 + DigitVal[s[i + n - 1]]

RECURSIVE Run(_, _, _, _)
\* how many characters s has in a row from position i on that are in the
\* set chars (in = TRUE) or are not in it (in = FALSE)
Run(s, i, chars, in) ==
    IF i <= Len(s) /\ (s[i] \in chars) = in
    THEN 1 + Run(s, i + 1, chars, in) ELSE 0

\* the value of the run of n digits at position i: leading zeros are
\* skipped and the digits after the ninth that follows them are dropped
ReadUnsignedNumeral(s, i, n) ==
    Num(s, i + Run(s, i, {"0"}, TRUE),
        IF n - Run(s, i, {"0"}, TRUE) <= MaxSignificantDigits
        THEN n - Run(s, i, {"0"}, TRUE) ELSE MaxSignificantDigits)

RECURSIVE SkipParentheses(_, _, _)
\* the position after the text in parentheses that opens at position i
SkipParentheses(s, i, balance) ==
    IF (IF s[i] = ")" THEN balance - 1
        ELSE IF s[i] = "(" THEN balance + 1 ELSE balance) > 0
       /\ ~IsEnd(s, i + 1)
    THEN SkipParentheses(s, i + 1,
             IF s[i] = ")" THEN balance - 1
             ELSE IF s[i] = "(" THEN balance + 1 ELSE balance)
    ELSE i + 1

\* the words the parser knows, by their first three letters in lower case
KeywordTable ==
    { [name |-> <<"j", "a", "n">>, type |-> "MONTH_NAME", value |-> 1],
      [name |-> <<"f", "e", "b">>, type |-> "MONTH_NAME", value |-> 2],
      [name |-> <<"m", "a", "r">>, type |-> "MONTH_NAME", value |-> 3],
      [name |-> <<"a", "p", "r">>, type |-> "MONTH_NAME", value |-> 4],
      [name |-> <<"m", "a", "y">>, type |-> "MONTH_NAME", value |-> 5],
      [name |-> <<"j", "u", "n">>, type |-> "MONTH_NAME", value |-> 6],
      [name |-> <<"j", "u", "l">>, type |-> "MONTH_NAME", value |-> 7],
      [name |-> <<"a", "u", "g">>, type |-> "MONTH_NAME", value |-> 8],
      [name |-> <<"s", "e", "p">>, type |-> "MONTH_NAME", value |-> 9],
      [name |-> <<"o", "c", "t">>, type |-> "MONTH_NAME", value |-> 10],
      [name |-> <<"n", "o", "v">>, type |-> "MONTH_NAME", value |-> 11],
      [name |-> <<"d", "e", "c">>, type |-> "MONTH_NAME", value |-> 12],
      [name |-> <<"a", "m">>, type |-> "AM_PM", value |-> 0],
      [name |-> <<"p", "m">>, type |-> "AM_PM", value |-> 12],
      [name |-> <<"u", "t">>, type |-> "TIME_ZONE_NAME", value |-> 0],
      [name |-> <<"u", "t", "c">>, type |-> "TIME_ZONE_NAME", value |-> 0],
      [name |-> <<"z">>, type |-> "TIME_ZONE_NAME", value |-> 0],
      [name |-> <<"g", "m", "t">>, type |-> "TIME_ZONE_NAME", value |-> 0],
      [name |-> <<"c", "d", "t">>, type |-> "TIME_ZONE_NAME", value |-> 0 - 5],
      [name |-> <<"c", "s", "t">>, type |-> "TIME_ZONE_NAME", value |-> 0 - 6],
      [name |-> <<"e", "d", "t">>, type |-> "TIME_ZONE_NAME", value |-> 0 - 4],
      [name |-> <<"e", "s", "t">>, type |-> "TIME_ZONE_NAME", value |-> 0 - 5],
      [name |-> <<"m", "d", "t">>, type |-> "TIME_ZONE_NAME", value |-> 0 - 6],
      [name |-> <<"m", "s", "t">>, type |-> "TIME_ZONE_NAME", value |-> 0 - 7],
      [name |-> <<"p", "d", "t">>, type |-> "TIME_ZONE_NAME", value |-> 0 - 7],
      [name |-> <<"p", "s", "t">>, type |-> "TIME_ZONE_NAME", value |-> 0 - 8],
      [name |-> <<"t">>, type |-> "TIME_SEPARATOR", value |-> 0] }

\* a token: a number (its value and how many digits), a symbol (type is the
\* character), a keyword (a word: its type, value and length), one white
\* space character, anything else (unknown), or the end of the input
Token(tag, type, value, length) ==
    [tag |-> tag, type |-> type, value |-> value, length |-> length]

EndOfInput == Token("end", "", 0, 0)
Invalid == Token("invalid", "", 0, 0)

\* the keyword a word is: one longer than three letters is a month name or
\* nothing
Lookup(prefix, length) ==
    IF \E e \in KeywordTable :
           e.name = prefix /\ (length <= 3 \/ e.type = "MONTH_NAME")
    THEN LET e == CHOOSE e \in KeywordTable : e.name = prefix
         IN  Token("keyword", e.type, e.value, length)
    ELSE Token("keyword", "INVALID", 0, length)

\* the token at position i, and the position after it; of a word the first
\* three characters, in lower case, are looked up
Scan(s, i) ==
    IF s[i] \in DOMAIN DigitVal
    THEN [ tok |-> Token("number", "",
                         ReadUnsignedNumeral(s, i, Run(s, i, DOMAIN DigitVal, TRUE)),
                         Run(s, i, DOMAIN DigitVal, TRUE)),
           end |-> i + Run(s, i, DOMAIN DigitVal, TRUE) ]
    ELSE IF s[i] \in {":", "-", "+", ".", ")"}
    THEN [tok |-> Token("symbol", s[i], 0, 1), end |-> i + 1]
    ELSE IF s[i] \notin NotOfWord
    THEN [ tok |-> Lookup([j \in 1..(IF Run(s, i, NotOfWord, FALSE) <= 3
                                       THEN Run(s, i, NotOfWord, FALSE) ELSE 3)
                              |-> AsciiAlphaToLower(s[i + j - 1])],
                          Run(s, i, NotOfWord, FALSE)),
           end |-> i + Run(s, i, NotOfWord, FALSE) ]
    ELSE IF s[i] \in WhiteSpace
    THEN [tok |-> Token("whitespace", "", 0, 1), end |-> i + 1]
    ELSE IF s[i] = "("
    THEN [tok |-> Token("unknown", "", 0, 1), end |-> SkipParentheses(s, i, 0)]
    ELSE [tok |-> Token("unknown", "", 0, 1), end |-> i + 1]

RECURSIVE Tokens(_, _)
\* the tokens of s from position i on
Tokens(s, i) ==
    IF IsEnd(s, i) THEN <<>>
    ELSE <<Scan(s, i).tok>> \o Tokens(s, Scan(s, i).end)

\* the k-th token
Peek(toks, k) == IF k \in 1..Len(toks) THEN toks[k] ELSE EndOfInput

IsFixedNumber(t, length) == t.tag = "number" /\ t.length = length
IsSymbol(t, ch) == t.tag = "symbol" /\ t.type = ch
IsAsciiSign(t) == t.tag = "symbol" /\ t.type \in {"+", "-"}
IsKeywordZ(t) == t.tag = "keyword" /\ t.type = "TIME_ZONE_NAME" /\ t.length = 1
AsciiSign(t) == IF t.type = "-" THEN 0 - 1 ELSE 1

\* DayComposer::IsMonth is 1..12 and IsDay 1..31; TimeComposer::IsHour is
\* 0..23, IsHour12 0..12, IsMinute and IsSecond 0..59, IsMillisecond 0..999

\* the milliseconds a fraction of a second says: one or two digits are
\* tenths or hundredths, the digits after the third are cut off
ReadMilliseconds(t) ==
    IF t.length = 1 THEN t.value * 100
    ELSE IF t.length = 2 THEN t.value * 10
    ELSE IF t.length = 3 THEN t.value
    ELSE IF t.length >= MaxSignificantDigits
    THEN t.value \div (10 ^ (MaxSignificantDigits - 3))
    ELSE t.value \div (10 ^ (t.length - 3))

\* What the parser has read: the numbers of the day (DayComposer), a named
\* month, whether the string had an ES5 form to its end, the numbers of the
\* time (TimeComposer), the 0 or 12 hours of AM or PM, the zone's sign,
\* hours and minutes (TimeZoneComposer), whether a number was read, and ok,
\* FALSE once the string is found to be no date.
NothingRead ==
    [ ok |-> TRUE, day |-> <<>>, namedMonth |-> None, isIsoDate |-> FALSE,
      time |-> <<>>, hourOffset |-> None,
      sign |-> None, tzHour |-> None, tzMinute |-> None,
      hasReadNumber |-> FALSE ]

Fail(c) == [c EXCEPT !.ok = FALSE]
\* DayComposer::Add
DayAdd(c, n) == [c EXCEPT !.day = Append(@, n)]
\* TimeComposer::Add
TimeAdd(c, n) == [c EXCEPT !.time = Append(@, n)]
\* TimeComposer::AddFinal: n is the last number of the time
TimeAddFinal(c, n) ==
    IF Len(c.time) >= 4 THEN c
    ELSE [c EXCEPT !.time = [i \in 1..4 |-> IF i <= Len(c.time) THEN c.time[i]
                                              ELSE IF i = Len(c.time) + 1 THEN n
                                              ELSE 0]]
TimeIsExpecting(c, n) ==
    \/ Len(c.time) = 1 /\ n \in 0..59
    \/ Len(c.time) = 2 /\ n \in 0..59
    \/ Len(c.time) = 3 /\ n \in 0..999
\* TimeZoneComposer::SetSign, SetAbsoluteHour and SetAbsoluteMinute; Set, for
\* a zone of whole hours, is these with the sign of the hours, their
\* absolute value, and 0 minutes
TzSetHourMinute(c, sign, hour, minute) ==
    [c EXCEPT !.sign = sign, !.tzHour = hour, !.tzMinute = minute]

\* what ParseES5DateTime hands back: the token it could not use (Invalid
\* after the T, EndOfInput when the whole string had an ES5 form), the number
\* of the token that follows, and what was read
Es5Result(next, k, c) == [next |-> next, k |-> k, c |-> c]

\* the whole string had an ES5 form: a date alone is UTC
Es5Done(c) ==
    Es5Result(EndOfInput, 0,
              [(IF c.sign = None /\ c.time = <<>> THEN TzSetHourMinute(c, 1, 0, 0) ELSE c)
                  EXCEPT !.isIsoDate = TRUE])

\* nothing may follow the zone
Es5End(toks, k, c) ==
    IF Peek(toks, k) = EndOfInput THEN Es5Done(c) ELSE Es5Result(Invalid, k, c)

\* Z, or a sign and HHmm or HH:mm
Es5Zone(toks, k, c) ==
    IF IsKeywordZ(Peek(toks, k)) THEN Es5End(toks, k + 1, TzSetHourMinute(c, 1, 0, 0))
    ELSE IF IsAsciiSign(Peek(toks, k))
    THEN IF IsFixedNumber(Peek(toks, k + 1), 4)
         THEN IF /\ Peek(toks, k + 1).value \div 100 \in 0..23
                 /\ Peek(toks, k + 1).value % 100 \in 0..59
              THEN Es5End(toks, k + 2,
                          TzSetHourMinute(c, AsciiSign(Peek(toks, k)),
                                          Peek(toks, k + 1).value \div 100,
                                          Peek(toks, k + 1).value % 100))
              ELSE Es5Result(Invalid, k, c)
         ELSE IF /\ IsFixedNumber(Peek(toks, k + 1), 2)
                 /\ Peek(toks, k + 1).value \in 0..23
                 /\ IsSymbol(Peek(toks, k + 2), ":")
                 /\ IsFixedNumber(Peek(toks, k + 3), 2)
                 /\ Peek(toks, k + 3).value \in 0..59
              THEN Es5End(toks, k + 4,
                          TzSetHourMinute(c, AsciiSign(Peek(toks, k)),
                                          Peek(toks, k + 1).value,
                                          Peek(toks, k + 3).value))
              ELSE Es5Result(Invalid, k, c)
    ELSE Es5End(toks, k, c)

\* .fraction after the seconds; after hour 24 only zeros
Es5Fraction(toks, k, c, hourIs24) ==
    IF IsSymbol(Peek(toks, k), ".")
    THEN IF /\ Peek(toks, k + 1).tag = "number"
            /\ ~(hourIs24 /\ Peek(toks, k + 1).value > 0)
         THEN Es5Zone(toks, k + 2, TimeAdd(c, ReadMilliseconds(Peek(toks, k + 1))))
         ELSE Es5Result(Invalid, k, c)
    ELSE Es5Zone(toks, k, c)

\* :ss after the minutes
Es5Second(toks, k, c, hourIs24) ==
    IF IsSymbol(Peek(toks, k), ":")
    THEN IF /\ IsFixedNumber(Peek(toks, k + 1), 2)
            /\ Peek(toks, k + 1).value \in 0..59
            /\ ~(hourIs24 /\ Peek(toks, k + 1).value > 0)
         THEN Es5Fraction(toks, k + 2, TimeAdd(c, Peek(toks, k + 1).value),
                          hourIs24)
         ELSE Es5Result(Invalid, k, c)
    ELSE Es5Zone(toks, k, c)

\* T and HH:mm after the date; without a T the string has to end here, or
\* the legacy parser goes on with the token found
Es5Time(toks, k, c) ==
    IF ~(Peek(toks, k).tag = "keyword" /\ Peek(toks, k).type = "TIME_SEPARATOR")
    THEN IF Peek(toks, k) = EndOfInput THEN Es5Done(c)
         ELSE Es5Result(Peek(toks, k), k + 1, c)
    ELSE IF /\ IsFixedNumber(Peek(toks, k + 1), 2)
            /\ Peek(toks, k + 1).value \in 0..24
            /\ IsSymbol(Peek(toks, k + 2), ":")
            /\ IsFixedNumber(Peek(toks, k + 3), 2)
            /\ Peek(toks, k + 3).value \in 0..59
            /\ ~(Peek(toks, k + 1).value = 24 /\ Peek(toks, k + 3).value > 0)
    THEN Es5Second(toks, k + 4,
                   TimeAdd(TimeAdd(c, Peek(toks, k + 1).value),
                           Peek(toks, k + 3).value),
                   Peek(toks, k + 1).value = 24)
    ELSE Es5Result(Invalid, k, c)

\* -DD after the month
Es5Day(toks, k, c) ==
    IF IsSymbol(Peek(toks, k), "-")
    THEN IF IsFixedNumber(Peek(toks, k + 1), 2) /\ Peek(toks, k + 1).value \in 1..31
         THEN Es5Time(toks, k + 2, DayAdd(c, Peek(toks, k + 1).value))
         ELSE Es5Result(Peek(toks, k + 1), k + 2, c)
    ELSE Es5Time(toks, k, c)

\* -MM after the year
Es5Month(toks, k, c) ==
    IF IsSymbol(Peek(toks, k), "-")
    THEN IF /\ IsFixedNumber(Peek(toks, k + 1), 2)
            /\ Peek(toks, k + 1).value \in 1..12
         THEN Es5Day(toks, k + 2, DayAdd(c, Peek(toks, k + 1).value))
         ELSE Es5Result(Peek(toks, k + 1), k + 2, c)
    ELSE Es5Time(toks, k, c)

\* the ES5 forms, from the year on: YYYY, or a sign and six digits
ParseES5DateTime(toks) ==
    IF IsAsciiSign(Peek(toks, 1))
    THEN IF ~IsFixedNumber(Peek(toks, 2), 6)
         THEN Es5Result(Peek(toks, 1), 2, NothingRead)
         ELSE IF AsciiSign(Peek(toks, 1)) < 0 /\ Peek(toks, 2).value = 0
         THEN Es5Result(Peek(toks, 1), 3, NothingRead)
         ELSE Es5Month(toks, 3,
                       DayAdd(NothingRead,
                              AsciiSign(Peek(toks, 1)) * Peek(toks, 2).value))
    ELSE IF IsFixedNumber(Peek(toks, 1), 4)
    THEN Es5Month(toks, 2, DayAdd(NothingRead, Peek(toks, 1).value))
    ELSE Es5Result(Peek(toks, 1), 2, NothingRead)

\* One step of the legacy parser is the token tok, with the tokens from the
\* k-th on still to come; it gives what has been read then and the number of
\* the next token to take.
Step(c, k) == [c |-> c, k |-> k]

\* a number that is not followed by ":" , nor by "." within a time: minutes
\* of the zone, the last number of a time, or a number of the day
LegacyNumberAlone(toks, n, k, c) ==
    IF c.tzHour # None /\ c.tzMinute = None /\ n \in 0..59
    THEN Step([c EXCEPT !.tzMinute = n], k)
    ELSE IF TimeIsExpecting(c, n)
    THEN IF \/ Peek(toks, k).tag \in {"end", "whitespace"}
            \/ IsKeywordZ(Peek(toks, k))
            \/ IsAsciiSign(Peek(toks, k))
         THEN Step(TimeAddFinal(c, n), k)
         ELSE Step(Fail(c), k)
    ELSE IF Len(c.day) >= 3 THEN Step(Fail(c), k)
    ELSE Step(DayAdd(c, n), IF IsSymbol(Peek(toks, k), "-") THEN k + 1 ELSE k)

LegacyNumber(toks, n, k, c) ==
    IF IsSymbol(Peek(toks, k), ":")
    THEN IF IsSymbol(Peek(toks, k + 1), ":")
         THEN Step(IF c.time # <<>> THEN Fail(c)
                   ELSE TimeAdd(TimeAdd(c, n), 0), k + 2)
         ELSE Step(IF Len(c.time) >= 4 THEN Fail(c) ELSE TimeAdd(c, n),
                   IF IsSymbol(Peek(toks, k + 1), ".") THEN k + 2 ELSE k + 1)
    ELSE IF IsSymbol(Peek(toks, k), ".")
    THEN IF TimeIsExpecting(c, n)
         THEN IF Peek(toks, k + 1).tag = "number"
              THEN Step(TimeAddFinal(TimeAdd(c, n),
                                     ReadMilliseconds(Peek(toks, k + 1))),
                        k + 2)
              ELSE Step(Fail(c), k + 1)
         ELSE LegacyNumberAlone(toks, n, k + 1, c)
    ELSE LegacyNumberAlone(toks, n, k, c)

\* a word: AM or PM after a time, a month name, a zone name after a number;
\* any other word only before the first number, and apart from it
LegacyKeyword(toks, tok, k, c) ==
    IF tok.type = "AM_PM" /\ c.time # <<>>
    THEN Step([c EXCEPT !.hourOffset = tok.value], k)
    ELSE IF tok.type = "MONTH_NAME"
    THEN Step([c EXCEPT !.namedMonth = tok.value],
              IF IsSymbol(Peek(toks, k), "-") THEN k + 1 ELSE k)
    ELSE IF tok.type = "TIME_ZONE_NAME" /\ c.hasReadNumber
    THEN Step(TzSetHourMinute(c, IF tok.value < 0 THEN 0 - 1 ELSE 1,
                              IF tok.value < 0 THEN 0 - tok.value ELSE tok.value,
                              0), k)
    ELSE IF c.hasReadNumber \/ Peek(toks, k).tag = "number"
    THEN Step(Fail(c), k)
    ELSE Step(c, k)

\* the offset after a sign: the number n of the given length (0 if there is
\* no number) is hours before a ":", hours of one or two digits, or hours
\* and minutes of three or four
LegacyOffset(toks, sign, n, length, k, c) ==
    IF IsSymbol(Peek(toks, k), ":")
    THEN Step(TzSetHourMinute(c, sign, n, None), k)
    ELSE IF length \in {1, 2}
    THEN Step(TzSetHourMinute(c, sign, n, 0), k)
    ELSE IF length \in {3, 4}
    THEN Step(TzSetHourMinute(c, sign, n \div 100, n % 100), k)
    ELSE Step(Fail([c EXCEPT !.sign = sign]), k)

\* a sign after UTC or after a time
LegacySign(toks, tok, k, c) ==
    IF Peek(toks, k).tag = "number"
    THEN LegacyOffset(toks, AsciiSign(tok), Peek(toks, k).value,
                      Peek(toks, k).length, k + 1,
                      [c EXCEPT !.hasReadNumber = TRUE])
    ELSE LegacyOffset(toks, AsciiSign(tok), 0, 0, k,
                      [c EXCEPT !.hasReadNumber = TRUE])

LegacyStep(toks, tok, k, c) ==
    IF tok.tag = "number"
    THEN LegacyNumber(toks, tok.value, k, [c EXCEPT !.hasReadNumber = TRUE])
    ELSE IF tok.tag = "keyword" THEN LegacyKeyword(toks, tok, k, c)
    ELSE IF IsAsciiSign(tok) /\ ((c.tzHour = 0 /\ c.tzMinute = 0) \/ c.time # <<>>)
    THEN LegacySign(toks, tok, k, c)
    ELSE IF (IsAsciiSign(tok) \/ IsSymbol(tok, ")")) /\ c.hasReadNumber
    THEN Step(Fail(c), k)
    ELSE Step(c, k)

RECURSIVE Legacy(_, _, _, _)
\* the legacy parser, from the token tok on
Legacy(toks, tok, k, c) ==
    IF tok = EndOfInput \/ ~c.ok THEN c
    ELSE LET r == LegacyStep(toks, tok, k, c)
         IN  Legacy(toks, Peek(toks, r.k), r.k + 1, r.c)

\* DateParser::Parse: the ES5 forms, then the legacy parser for what is left
Parse(toks) ==
    LET r == ParseES5DateTime(toks)
    IN  IF r.next = Invalid THEN Fail(r.c)
        ELSE Legacy(toks, r.next, r.k,
                    [r.c EXCEPT !.hasReadNumber = (r.c.day # <<>>)])

\* the day number of 1 January of year y, counted from 1 January 1970
DayFromYear(y) ==
    365 * (y - 1970) + ((y - 1969) \div 4) - ((y - 1901) \div 100)
        + ((y - 1601) \div 400)

RECURSIVE DaysBeforeMonth(_, _)
\* the days of year y before its month m
DaysBeforeMonth(y, m) ==
    IF m <= 1 THEN 0
    ELSE DaysBeforeMonth(y, m - 1)
         + (IF m - 1 = 2
            THEN (IF (y % 4 = 0 /\ y % 100 # 0) \/ y % 400 = 0 THEN 29 ELSE 28)
            ELSE IF m - 1 \in {4, 6, 9, 11} THEN 30 ELSE 31)

\* the instant ms milliseconds after the start of day number day
Instant(day, ms) == <<day + (ms \div MsPerDay), ms % MsPerDay>>

\* new Date(ms): the instant ms milliseconds after the origin
FromMs(ms) == Instant(0, ms)

\* a <= b for two instants
NotAfter(a, b) == a[1] < b[1] \/ (a[1] = b[1] /\ a[2] <= b[2])

\* a < b for two instants
Before(a, b) == a[1] < b[1] \/ (a[1] = b[1] /\ a[2] < b[2])

\* TimeClip: an instant out of the range of Date is NaN
TimeClip(t) ==
    IF /\ t[1] + DayFromYear(EpochYear) >= 0 - MaxDays
       /\ \/ t[1] + DayFromYear(EpochYear) < MaxDays
          \/ t[1] + DayFromYear(EpochYear) = MaxDays /\ t[2] = 0
    THEN t ELSE NaN

\* the i-th of the numbers read, or the default of one not read: 1 for a
\* number of the day, 0 for one of the time
Comp(numbers, i, default) == IF i <= Len(numbers) THEN numbers[i] ELSE default

\* DayComposer::Write: which of the numbers read is the year, the month and
\* the day; a year 0..49 not of an ES5 form is 2000.., a year 50..99 1950..
YearOf(c, year) ==
    IF c.isIsoDate THEN year
    ELSE IF year \in 0..49 THEN year + 2000
    ELSE IF year \in 50..99 THEN year + 1900
    ELSE year

DayWrite(c) ==
    IF c.namedMonth = None
    THEN IF c.isIsoDate \/ Comp(c.day, 1, 1) \notin 1..31
         THEN [ year |-> YearOf(c, Comp(c.day, 1, 1)),
                month |-> Comp(c.day, 2, 1), day |-> Comp(c.day, 3, 1) ]
         ELSE [ year |-> YearOf(c, Comp(c.day, 3, 1)),
                month |-> Comp(c.day, 1, 1), day |-> Comp(c.day, 2, 1) ]
    ELSE IF Comp(c.day, 1, 1) \notin 1..31
         THEN [ year |-> YearOf(c, Comp(c.day, 1, 1)),
                month |-> c.namedMonth, day |-> Comp(c.day, 2, 1) ]
         ELSE [ year |-> YearOf(c, Comp(c.day, 2, 1)),
                month |-> c.namedMonth, day |-> Comp(c.day, 1, 1) ]

\* TimeComposer::Write: the hour, with AM or PM counted in
HourOf(c) ==
    IF c.hourOffset = None THEN Comp(c.time, 1, 0)
    ELSE (Comp(c.time, 1, 0) % 12) + c.hourOffset

\* MakeTime: the milliseconds into the day
TimeWrite(c) ==
    ((HourOf(c) * 60 + Comp(c.time, 2, 0)) * 60 + Comp(c.time, 3, 0)) * 1000
        + Comp(c.time, 4, 0)

\* TimeZoneComposer::Write: hour * 3600 + minute * 60 in 32 bits, here a
\* quarter of it (both terms are multiples of 4) modulo 2^30
TzSecondsBy4(c) ==
    ( ((900 * (c.tzHour \div 1048576)) % 1024) * 1048576
      + 900 * (c.tzHour % 1048576)
      + 15 * (IF c.tzMinute = None THEN 0 ELSE c.tzMinute) ) % 1073741824

\* DayComposer::Write, TimeComposer::Write and TimeZoneComposer::Write all
\* succeed: a number of the day was read, month and day are in range; AM or
\* PM goes with an hour of 0..12; the time is in range, or is 24:00:00.000;
\* the zone's seconds are no more than Smi::kMaxValue
WriteSucceeds(c) ==
    /\ Len(c.day) >= 1
    /\ DayWrite(c).month \in 1..12 /\ DayWrite(c).day \in 1..31
    /\ c.hourOffset # None => Comp(c.time, 1, 0) \in 0..12
    /\ \/ /\ HourOf(c) \in 0..23 /\ Comp(c.time, 2, 0) \in 0..59
          /\ Comp(c.time, 3, 0) \in 0..59 /\ Comp(c.time, 4, 0) \in 0..999
       \/ /\ HourOf(c) = 24 /\ Comp(c.time, 2, 0) = 0
          /\ Comp(c.time, 3, 0) = 0 /\ Comp(c.time, 4, 0) = 0
    /\ c.sign # None => TzSecondsBy4(c) <= SmiMaxValueBy4

\* MakeDay, MakeTime, MakeDate, the zone taken off, TimeClip; ahead is the
\* seconds the time read is ahead of UTC
MakeDate(d, ms, ahead) ==
    IF d.year < 0 - MaxYear \/ d.year > MaxYear THEN NaN
    ELSE TimeClip(Instant(
             DayFromYear(d.year) - DayFromYear(EpochYear)
                 + DaysBeforeMonth(d.year, d.month)
                 + (d.day - 1) - (ahead \div 86400),
             ms - (ahead % 86400) * 1000))

\* the time value of what the parser read, NaN if it is no date; a time
\* without a zone is local time
TimeValue(c) ==
    IF c.ok /\ WriteSucceeds(c)
    THEN MakeDate(DayWrite(c), TimeWrite(c),
                  IF c.sign = None THEN HostUtcOffsetMinutes * 60
                  ELSE c.sign * 4 * TzSecondsBy4(c))
    ELSE NaN

\* new Date(s).getTime()
DateGetTime(s) == TimeValue(Parse(Tokens(s, 1)))

\* the template literal `${task.date}T${task.time}` (both operands truthy)
DateTimeString(task) == task.date \o <<"T">> \o task.time


(***************************************************************************)
(* State.                                                                   *)
(***************************************************************************)
VARIABLES
    os,          \* Platform.OS
    permission,  \* the platform's notification permission status
    pending,     \* the platform's scheduled notification requests, oldest first
    nextId,      \* number of the next identifier the platform assigns
    listeners,   \* number of attached notification-response listeners
    now,         \* the device clock, ms after the model epoch
    calls        \* the invocations of the service, by call number

vars == <<os, permission, pending, nextId, listeners, now, calls>>

Calls == 1..MaxCalls

\* steps by which the device clock is seen to advance
ClockSteps == {59999, 60000}

\* line 90: the one-minute buffer
GuardMs == 60000

Null == <<"null">>
\* the value of a Promise<void> that returned nothing
Void == <<"void">>
\* the closure initializeNotifications returns after attaching its listener
Cleanup == <<"cleanup">>
\* the clock reading of an invocation that has not read the clock (line 87)
Unset == 0 - 2

Digits == <<"1", "2", "3", "4", "5", "6", "7", "8", "9">>
\* the identifier the platform gives the k-th request it creates
IdOf(k) == <<"n", Digits[k]>>

(***************************************************************************)
(* Inputs.                                                                  *)
(***************************************************************************)
T1 == <<"t", "1">>
T2 == <<"t", "2">>
Blank == <<" ", " ">>
Day1 == <<"2", "0", "3", "0", "-", "0", "1", "-", "0", "1">>
BadDay == <<"2", "0", "3", "0", "-", "1", "3", "-", "0", "1">>
At0001 == <<"0", "0", ":", "0", "1">>
At0002 == <<"0", "0", ":", "0", "2">>
At0003 == <<"0", "0", ":", "0", "3">>
Eve == <<"2", "0", "2", "9", "-", "1", "2", "-", "3", "1">>
At2359 == <<"2", "3", ":", "5", "9">>
Milk == <<"m", "i", "l", "k">>
Eggs == <<"e", "g", "g", "s">>
Alex == <<" ", "A", "l", "e", "x">>

Task(id, title, date, time) ==
    [id |-> id, title |-> title, date |-> date, time |-> time]

\* tasks that pass the validation of lines 67-85
GoodTasks ==
    { Task(T1, Milk, Day1, At0002), Task(T1, Eggs, Day1, At0003),
      Task(T2, Milk, Day1, At0003), Task(T1, Milk, Eve, At2359) }

\* tasks with a field missing, blank or unparsable
BadTasks ==
    { Task(T1, Empty, Day1, At0002), Task(T1, Milk, Undefined, At0002),
      Task(T1, Milk, Day1, Empty), Task(T1, Milk, BadDay, At0002),
      Task(Undefined, Milk, Day1, At0003), Task(Blank, Milk, Day1, At0003) }

Tasks == GoodTasks \cup BadTasks
\* display names: a name with a leading blank, a blank one and the empty
\* string (userName is a string, line 53)
UserNames == {Alex, Blank, Empty}
TaskIds == {T1, T2, Blank, Undefined}
NotificationIds == {IdOf(1), IdOf(2), Empty, Blank}
NoTask == Task(Undefined, Undefined, Undefined, Undefined)

Ops ==
    { "requestPermissions", "scheduleTaskNotification", "cancelTaskNotification",
      "cancelTaskNotifications", "cancelAllNotifications",
      "initializeNotifications", "getScheduledNotifications" }

\* the calls of the expo-notifications module an invocation can await
Ports ==
    { "getPermissionsAsync", "requestPermissionsAsync", "requestPermissionsAsync_ios",
      "getAllScheduledNotificationsAsync", "cancelScheduledNotificationAsync",
      "scheduleNotificationAsync", "cancelAllScheduledNotificationsAsync",
      "addNotificationResponseReceivedListener" }

IdleCall ==
    [ op |-> "none", task |-> NoTask, userName |-> Undefined, id |-> Undefined,
      pc |-> "idle", existingStatus |-> "unset", finalStatus |-> "unset",
      hasPermission |-> "unset", now |-> Unset,
      taskDateTime |-> Undefined, listed |-> "unset", taskNotifications |-> <<>>,
      todo |-> <<>>, failed |-> {}, result |-> Void, threw |-> FALSE,
      subscribed |-> FALSE, removed |-> FALSE, ports |-> {}, rejected |-> {}, after |-> {} ]

Init ==
    /\ os \in {"ios", "android", "web"}
    /\ permission \in {"granted", "denied", "undetermined"}
    /\ pending = <<>>
    /\ nextId = 1
    /\ listeners = 0
    /\ now = 0
    /\ calls = [c \in Calls |-> IdleCall]

(***************************************************************************)
(* The code of the service between two awaits, as operators on the record   *)
(* r of the invocation that runs it.  Each gives the record at the next     *)
(* await or at the return.                                                  *)
(***************************************************************************)
\* the invocation returns v to its caller
Return(r, v) == [r EXCEPT !.pc = "done", !.result = v]

\* the awaited platform call rejects: the exception the handlers below catch
Rejected(r) == [r EXCEPT !.rejected = @ \cup {r.pc}]

\* the invocation calls the platform and awaits the answer
Await(r, port) == [r EXCEPT !.pc = port, !.ports = @ \cup {port}]

\* line 99
\* mutant: the user name is used as given
DisplayNameUnchecked(userName) == userName

\* line 99
DisplayName(userName) ==
    IF Truthy(userName) /\ Truthy(Trim(userName)) THEN Trim(userName)
    ELSE <<"U", "s", "e", "r">>

TitlePrefix ==
    <<"T", "a", "s", "k", " ", "R", "e", "m", "i", "n", "d", "e", "r", " ",
      "f", "o", "r", " ">>
BodyPrefix ==
    <<"D", "o", "n", "'", "t", " ", "f", "o", "r", "g", "e", "t", ":", " ">>

\* lines 101-114: the request handed to scheduleNotificationAsync
NotificationRequest(task, userName, taskDateTime) ==
    [ content |-> [ title |-> TitlePrefix \o DisplayName(userName),
                    body |-> BodyPrefix \o task.title,
                    data |-> [taskId |-> task.id, taskTitle |-> task.title],
                    sound |-> TRUE ],
      trigger |-> [date |-> taskDateTime] ]

\* mutant: the catch block of scheduleTaskNotification rethrows
ScheduleCatchRethrows(r) == [r EXCEPT !.pc = "done", !.threw = TRUE]

\* lines 118-121
ScheduleCatch(r) == Return(r, Null)
\* lines 134-136
CancelOneCatch(r) == Return(r, Void)
\* lines 176-178
CancelAllCatch(r) == Return(r, Void)
\* lines 215-217
InitializeCatch(r) == Return(r, Void)
\* lines 227-230
GetScheduledCatch(r) == Return(r, <<>>)

\* the invocation awaits the promise of the method of the service it called
AwaitMethod(r, method) == [r EXCEPT !.pc = method]

\* cancelTaskNotifications returns: its promise resolves, for
\* scheduleTaskNotification (suspended at line 96) or for the caller of the
\* service
CancelTaskNotificationsReturn(r) ==
    IF r.op = "scheduleTaskNotification"
    THEN AwaitMethod(r, "cancelTaskNotifications")
    ELSE Return(r, Void)

\* lines 98-101
ScheduleAfterCancel(r) == Await(r, "scheduleNotificationAsync")

\* mutant: cancelTaskNotifications is not awaited, so the request is created
\* while reminders of the task are still to be cancelled
CancelLoopNotAwaited(r) ==
    IF r.todo = <<>> \/ r.op = "scheduleTaskNotification"
    THEN CancelTaskNotificationsReturn(r)
    ELSE Await(r, "cancelScheduledNotificationAsync")

\* lines 155-162: the head of the for loop
CancelLoop(r) ==
    IF r.todo = <<>> THEN CancelTaskNotificationsReturn(r)
    ELSE Await(r, "cancelScheduledNotificationAsync")

\* mutant: no try/catch inside the loop, so the first failed cancellation
\* ends it
CancelLoopCatchAborts(r) ==
    CancelTaskNotificationsReturn([r EXCEPT !.failed = @ \cup {Head(r.todo)}])

\* lines 159-161: a failed cancellation is logged and the loop goes on
CancelLoopCatch(r) ==
    CancelLoop([r EXCEPT !.failed = @ \cup {Head(r.todo)},
                         !.todo = Tail(@)])

\* lines 163-165
CancelTaskNotificationsCatch(r) == CancelTaskNotificationsReturn(r)

\* mutant: the reminders of the task are not looked up at all
CancelTaskNotificationsSkipped(r, taskId) == CancelTaskNotificationsReturn(r)

\* lines 139-150
CancelTaskNotificationsEnter(r, taskId) ==
    IF os = "web" THEN CancelTaskNotificationsReturn(r)
    ELSE IF ~Truthy(taskId) \/ ~Truthy(Trim(taskId))
         THEN CancelTaskNotificationsReturn(r)
         ELSE Await(r, "getAllScheduledNotificationsAsync")

\* mutant: the comparison of line 90 is strict
TooSoonStrict(taskDateTime, nowMs) ==
    Before(taskDateTime, FromMs(nowMs + GuardMs))

\* line 90
TooSoon(taskDateTime, nowMs) ==
    NotAfter(taskDateTime, FromMs(nowMs + GuardMs))

\* mutant: lines 67-70 are missing, so no field is looked at
MissingFieldUnchecked(task) == FALSE

\* lines 67-70
MissingField(task) ==
    ~Truthy(task.date) \/ ~Truthy(task.time) \/ ~Truthy(task.title)

\* mutant: lines 61-64 are missing, so a denied permission does not stop the call
ScheduleAfterPermissionsUngated(r, hasPermission) ==
    IF MissingField(r.task) THEN Return(r, Null)
    ELSE LET taskDateTime == DateGetTime(DateTimeString(r.task))
         IN  IF taskDateTime = NaN THEN Return(r, Null)
             ELSE IF TooSoon(taskDateTime, now)
                  THEN Return([r EXCEPT !.taskDateTime = taskDateTime,
                                        !.now = now], Null)
                  ELSE CancelTaskNotificationsEnter(
                           [r EXCEPT !.taskDateTime = taskDateTime, !.now = now],
                           r.task.id)

\* lines 61-96
ScheduleAfterPermissions(r, hasPermission) ==
    IF ~hasPermission THEN Return(r, Null)
    ELSE IF MissingField(r.task) THEN Return(r, Null)
    ELSE LET taskDateTime == DateGetTime(DateTimeString(r.task))
         IN  IF taskDateTime = NaN THEN Return(r, Null)
             ELSE IF TooSoon(taskDateTime, now)
                  THEN Return([r EXCEPT !.taskDateTime = taskDateTime,
                                        !.now = now], Null)
                  ELSE CancelTaskNotificationsEnter(
                           [r EXCEPT !.taskDateTime = taskDateTime, !.now = now],
                           r.task.id)

\* lines 190-214; attached is whether addNotificationResponseReceivedListener
\* returned a subscription rather than throwing
InitializeAfterPermissions(r, hasPermission, attached) ==
    LET q == [r EXCEPT !.ports = @ \cup {"addNotificationResponseReceivedListener"}]
    IN  IF attached THEN Return([q EXCEPT !.subscribed = TRUE], Cleanup)
        ELSE InitializeCatch(
                 [q EXCEPT !.rejected = @ \cup
                               {"addNotificationResponseReceivedListener"}])

\* requestPermissions returns value: its promise resolves, for
\* scheduleTaskNotification (suspended at line 60), for
\* initializeNotifications (suspended at line 189) or for the caller of the
\* service
RequestPermissionsReturn(r, value) ==
    LET q == [r EXCEPT !.hasPermission = IF value THEN "true" ELSE "false"]
    IN  IF r.op \in {"scheduleTaskNotification", "initializeNotifications"}
        THEN AwaitMethod(q, "requestPermissions")
        ELSE Return(q, <<value>>)

\* lines 26-46
RequestPermissionsFinal(r, finalStatus) ==
    LET q == [r EXCEPT !.finalStatus = finalStatus]
    IN  IF os = "ios" /\ finalStatus = "granted"
        THEN Await(q, "requestPermissionsAsync_ios")
        ELSE RequestPermissionsReturn(q, finalStatus = "granted")

\* lines 47-50
RequestPermissionsCatch(r) == RequestPermissionsReturn(r, FALSE)

\* lines 21-27
RequestPermissionsAfterGet(r, existingStatus) ==
    LET q == [r EXCEPT !.existingStatus = existingStatus,
                       !.finalStatus = existingStatus]
    IN  IF existingStatus # "granted" THEN Await(q, "requestPermissionsAsync")
        ELSE RequestPermissionsFinal(q, existingStatus)

\* line 46, reached from line 39 with finalStatus granted
RequestPermissionsIosDone(r) == RequestPermissionsReturn(r, TRUE)

\* mutant: the failure of the second request reaches the outer catch
RequestPermissionsIosCatchFails(r) == RequestPermissionsReturn(r, FALSE)

\* lines 40-43: the failure of the second request is logged and swallowed
RequestPermissionsIosCatch(r) == RequestPermissionsIosDone(r)

\* mutant: a grant is remembered while a request made under it is scheduled
RequestPermissionsEnterCached(r) ==
    IF os = "web" \/ Len(pending) > 0 THEN RequestPermissionsReturn(r, TRUE)
    ELSE Await(r, "getPermissionsAsync")

\* lines 16-21
RequestPermissionsEnter(r) ==
    IF os = "web" THEN RequestPermissionsReturn(r, TRUE)
    ELSE Await(r, "getPermissionsAsync")

\* lines 54-60
ScheduleEnter(r) ==
    IF os = "web" THEN Return(r, Null) ELSE RequestPermissionsEnter(r)

\* lines 125-131
CancelOneEnter(r) ==
    IF os = "web" THEN Return(r, Void)
    ELSE IF Truthy(r.id) /\ Truthy(Trim(r.id))
         THEN Await(r, "cancelScheduledNotificationAsync")
         ELSE Return(r, Void)

\* lines 169-174
CancelAllEnter(r) ==
    IF os = "web" THEN Return(r, Void)
    ELSE Await(r, "cancelAllScheduledNotificationsAsync")

\* lines 182-189
InitializeEnter(r) ==
    IF os = "web" THEN Return(r, Void) ELSE RequestPermissionsEnter(r)

\* mutant: getScheduledNotifications lacks the check of lines 221-223
GetScheduledEnterAnywhere(r) == Await(r, "getAllScheduledNotificationsAsync")

\* lines 221-226
GetScheduledEnter(r) ==
    IF os = "web" THEN Return(r, <<>>)
    ELSE Await(r, "getAllScheduledNotificationsAsync")

(***************************************************************************)
(* Actions: the application calls the service.                              *)
(***************************************************************************)
\* call numbers are handed out in order
CanStart(c) ==
    /\ calls[c].pc = "idle"
    /\ \A d \in Calls : d < c => calls[d].pc # "idle"

NewCall(op, task, userName, id) ==
    [IdleCall EXCEPT !.op = op, !.task = task, !.userName = userName, !.id = id,
                     !.after = {d \in Calls : calls[d].pc = "done"}]

Start(c, r) ==
    /\ CanStart(c)
    /\ calls' = [calls EXCEPT ![c] = r]
    /\ UNCHANGED <<os, permission, pending, nextId, listeners, now>>

RequestPermissions(c) ==
    Start(c, RequestPermissionsEnter(
                 NewCall("requestPermissions", NoTask, Undefined, Undefined)))

ScheduleTaskNotification(c, tasks, userNames) ==
    \E task \in tasks, userName \in userNames :
        Start(c, ScheduleEnter(
                     NewCall("scheduleTaskNotification", task, userName, Undefined)))

CancelTaskNotification(c, notificationIds) ==
    \E notificationId \in notificationIds :
        Start(c, CancelOneEnter(
                     NewCall("cancelTaskNotification", NoTask, Undefined,
                             notificationId)))

CancelTaskNotifications(c, taskIds) ==
    \E taskId \in taskIds :
        Start(c, CancelTaskNotificationsEnter(
                     NewCall("cancelTaskNotifications", NoTask, Undefined, taskId),
                     taskId))

CancelAllNotifications(c) ==
    Start(c, CancelAllEnter(
                 NewCall("cancelAllNotifications", NoTask, Undefined, Undefined)))

InitializeNotifications(c) ==
    Start(c, InitializeEnter(
                 NewCall("initializeNotifications", NoTask, Undefined, Undefined)))

GetScheduledNotifications(c) ==
    Start(c, GetScheduledEnter(
                 NewCall("getScheduledNotifications", NoTask, Undefined, Undefined)))

(***************************************************************************)
(* Actions: the platform answers an awaited call.  ok is whether the        *)
(* promise resolves; a call that rejects has had no effect.                 *)
(***************************************************************************)
\* the invocation goes from record calls[c] to r
Resume(c, r) ==
    /\ calls' = [calls EXCEPT ![c] = r]
    /\ listeners' = IF r.subscribed /\ ~calls[c].subscribed
                    THEN listeners + 1 ELSE listeners

\* the task identity cancelTaskNotifications was called with
TaskIdOf(r) == IF r.op = "scheduleTaskNotification" THEN r.task.id ELSE r.id

Identifiers(seq) == [i \in 1..Len(seq) |-> seq[i].identifier]

\* mutant: the filter of lines 151-153 lets every request through
TaskNotificationsUnfiltered(scheduledNotifications, taskId) ==
    Identifiers(scheduledNotifications)

\* lines 151-153
TaskNotifications(scheduledNotifications, taskId) ==
    LET Bound(n) == n.content.data.taskId = taskId
    IN  Identifiers(SelectSeq(scheduledNotifications, Bound))

\* Notifications.getPermissionsAsync()
GetPermissionsAsync(c) ==
    /\ calls[c].pc = "getPermissionsAsync"
    /\ \E ok \in BOOLEAN :
          Resume(c, IF ok
                    THEN RequestPermissionsAfterGet(calls[c], permission)
                    ELSE RequestPermissionsCatch(Rejected(calls[c])))
    /\ UNCHANGED <<os, permission, pending, nextId, now>>

\* Notifications.requestPermissionsAsync(): the user answers the prompt, or
\* leaves it unanswered and the status resolved is "undetermined"
RequestPermissionsAsync(c) ==
    /\ calls[c].pc = "requestPermissionsAsync"
    /\ \E ok \in BOOLEAN, answer \in {"granted", "denied", "undetermined"} :
          IF ok
          THEN /\ permission' = IF permission = "granted" THEN "granted" ELSE answer
               /\ Resume(c, RequestPermissionsFinal(calls[c], permission'))
          ELSE /\ permission' = permission
               /\ Resume(c, RequestPermissionsCatch(Rejected(calls[c])))
    /\ UNCHANGED <<os, pending, nextId, now>>

\* Notifications.requestPermissionsAsync({ios: ...})
RequestPermissionsAsyncIos(c) ==
    /\ calls[c].pc = "requestPermissionsAsync_ios"
    /\ \E ok \in BOOLEAN :
          Resume(c, IF ok THEN RequestPermissionsIosDone(calls[c])
                    ELSE RequestPermissionsIosCatch(Rejected(calls[c])))
    /\ UNCHANGED <<os, permission, pending, nextId, now>>

\* Notifications.getAllScheduledNotificationsAsync()
GetAllScheduledNotificationsAsync(c) ==
    /\ calls[c].pc = "getAllScheduledNotificationsAsync"
    /\ \E ok \in BOOLEAN :
          LET r == calls[c]
          IN  Resume(c,
                IF r.op = "getScheduledNotifications"
                THEN (IF ok THEN Return(r, pending)
                      ELSE GetScheduledCatch(Rejected(r)))
                ELSE IF ok
                     THEN LET ids == TaskNotifications(pending, TaskIdOf(r))
                          IN  CancelLoop([r EXCEPT !.listed = "ok",
                                                   !.taskNotifications = ids,
                                                   !.todo = ids])
                     ELSE CancelTaskNotificationsCatch(
                              [Rejected(r) EXCEPT !.listed = "failed"]))
    /\ UNCHANGED <<os, permission, pending, nextId, now>>

\* the platform's pending set without the request of that identifier
Without(seq, identifier) ==
    LET Other(n) == n.identifier # identifier IN SelectSeq(seq, Other)

\* Notifications.cancelScheduledNotificationAsync(identifier)
CancelScheduledNotificationAsync(c) ==
    /\ calls[c].pc = "cancelScheduledNotificationAsync"
    /\ \E ok \in BOOLEAN :
          LET r == calls[c]
          IN  IF r.op = "cancelTaskNotification"
              THEN /\ pending' = IF ok THEN Without(pending, r.id) ELSE pending
                   /\ Resume(c, IF ok THEN Return(r, Void)
                                ELSE CancelOneCatch(Rejected(r)))
              ELSE /\ pending' = IF ok THEN Without(pending, Head(r.todo))
                                 ELSE pending
                   /\ Resume(c, IF ok THEN CancelLoop([r EXCEPT !.todo = Tail(@)])
                                ELSE CancelLoopCatch(Rejected(r)))
    /\ UNCHANGED <<os, permission, nextId, now>>

\* Notifications.scheduleNotificationAsync(request)
ScheduleNotificationAsync(c) ==
    /\ calls[c].pc = "scheduleNotificationAsync"
    /\ nextId <= Len(Digits)
    /\ \E ok \in BOOLEAN :
          LET r == calls[c]
              request == NotificationRequest(r.task, r.userName, r.taskDateTime)
          IN  IF ok
              THEN /\ pending' = Append(pending,
                                   [ identifier |-> IdOf(nextId),
                                     content |-> request.content,
                                     trigger |-> request.trigger ])
                   /\ nextId' = nextId + 1
                   /\ Resume(c, Return(r, IdOf(nextId)))
              ELSE /\ UNCHANGED <<pending, nextId>>
                   /\ Resume(c, ScheduleCatch(Rejected(r)))
    /\ UNCHANGED <<os, permission, now>>

\* Notifications.cancelAllScheduledNotificationsAsync()
CancelAllScheduledNotificationsAsync(c) ==
    /\ calls[c].pc = "cancelAllScheduledNotificationsAsync"
    /\ \E ok \in BOOLEAN :
          /\ pending' = IF ok THEN <<>> ELSE pending
          /\ Resume(c, IF ok THEN Return(calls[c], Void)
                       ELSE CancelAllCatch(Rejected(calls[c])))
    /\ UNCHANGED <<os, permission, nextId, now>>

(***************************************************************************)
(* Actions: the microtask queue resumes an invocation that awaited a method *)
(* of the service, and the application uses what a call returned.           *)
(***************************************************************************)
\* line 60 or line 189: the promise of requestPermissions() has resolved and
\* the invocation goes on with its value; attached is whether
\* addNotificationResponseReceivedListener returns a subscription
AwaitRequestPermissions(c) ==
    /\ calls[c].pc = "requestPermissions"
    /\ LET r == calls[c]
           hasPermission == r.hasPermission = "true"
       IN  IF r.op = "scheduleTaskNotification"
           THEN Resume(c, ScheduleAfterPermissions(r, hasPermission))
           ELSE \E attached \in BOOLEAN :
                    Resume(c, InitializeAfterPermissions(r, hasPermission, attached))
    /\ UNCHANGED <<os, permission, pending, nextId, now>>

\* line 96: the promise of cancelTaskNotifications() has resolved
AwaitCancelTaskNotifications(c) ==
    /\ calls[c].pc = "cancelTaskNotifications"
    /\ Resume(c, ScheduleAfterCancel(calls[c]))
    /\ UNCHANGED <<os, permission, pending, nextId, now>>

\* lines 212-214: the application calls the function initializeNotifications
\* returned, which removes the subscription of that invocation
SubscriptionRemove(c) ==
    /\ calls[c].op = "initializeNotifications"
    /\ calls[c].pc = "done"
    /\ calls[c].subscribed /\ ~calls[c].removed
    /\ calls' = [calls EXCEPT ![c].removed = TRUE]
    /\ listeners' = listeners - 1
    /\ UNCHANGED <<os, permission, pending, nextId, now>>

(***************************************************************************)
(* Actions: the environment.                                                *)
(***************************************************************************)
\* time passes
Tick ==
    /\ \E d \in ClockSteps : now + d <= MaxNow /\ now' = now + d
    /\ UNCHANGED <<os, permission, pending, nextId, listeners, calls>>

\* the user grants or revokes the permission in the system settings
ChangeSettings ==
    /\ os # "web"
    /\ \E p \in {"granted", "denied"} : p # permission /\ permission' = p
    /\ UNCHANGED <<os, pending, nextId, listeners, now, calls>>

\* the application drops the settled promise of a call and what it knew of it
Forget(c) ==
    /\ calls[c].pc = "done"
    /\ calls' = [calls EXCEPT ![c] = [IdleCall EXCEPT !.pc = "gone"]]
    /\ UNCHANGED <<os, permission, pending, nextId, listeners, now>>

\* no call is in flight and none is remembered
Quiet == \A c \in Calls : calls[c].pc \in {"idle", "gone"}

\* the platform answers some awaited call
Answer ==
    \E c \in Calls :
        \/ GetPermissionsAsync(c)
        \/ RequestPermissionsAsync(c)
        \/ RequestPermissionsAsyncIos(c)
        \/ GetAllScheduledNotificationsAsync(c)
        \/ CancelScheduledNotificationAsync(c)
        \/ ScheduleNotificationAsync(c)
        \/ CancelAllScheduledNotificationsAsync(c)

(***************************************************************************)
(* Spec: the application makes one call at a time, each with any input, on  *)
(* any platform, while the clock runs and the user may change the           *)
(* permission.                                                              *)
(***************************************************************************)
Next ==
    \/ /\ Quiet
       /\ \E c \in 1..MaxSequential :
             \/ RequestPermissions(c)
             \/ ScheduleTaskNotification(c, Tasks, UserNames)
             \/ CancelTaskNotification(c, NotificationIds)
             \/ CancelTaskNotifications(c, TaskIds)
             \/ CancelAllNotifications(c)
             \/ InitializeNotifications(c)
             \/ GetScheduledNotifications(c)
    \/ Answer
    \/ \E c \in Calls : AwaitRequestPermissions(c)
    \/ \E c \in Calls : AwaitCancelTaskNotifications(c)
    \/ \E c \in Calls : SubscriptionRemove(c)
    \/ \E c \in Calls : Forget(c)
    \/ Tick
    \/ ChangeSettings

Spec == Init /\ [][Next]_vars

(***************************************************************************)
(* RaceSpec: the application makes calls about one task while earlier calls *)
(* are still in flight, on a device whose user has granted the permission.  *)
(***************************************************************************)
RaceTasks ==
    { Task(T1, Milk, Day1, At0001), Task(T1, Milk, Day1, At0002),
      Task(T1, Eggs, Day1, At0003) }

RaceInit ==
    /\ os = "android"
    /\ permission = "granted"
    /\ pending = <<>>
    /\ nextId = 1
    /\ listeners = 0
    /\ now = 0
    /\ calls = [c \in Calls |-> IdleCall]

RaceNext ==
    \E c \in Calls :
        \/ ScheduleTaskNotification(c, RaceTasks, {Alex})
        \/ CancelTaskNotifications(c, {T1})
        \/ GetPermissionsAsync(c)
        \/ AwaitRequestPermissions(c)
        \/ GetAllScheduledNotificationsAsync(c)
        \/ CancelScheduledNotificationAsync(c)
        \/ AwaitCancelTaskNotifications(c)
        \/ ScheduleNotificationAsync(c)

RaceSpec == RaceInit /\ [][RaceNext]_vars

(***************************************************************************)
(* SeqSpec: as RaceSpec, but each call is made after the calls before it    *)
(* have returned, and the tasks include one whose id is blank.              *)
(***************************************************************************)
SeqTasks == RaceTasks \cup {Task(Blank, Milk, Day1, At0002)}

\* no call is in flight
NoneInFlight == \A c \in Calls : calls[c].pc \in {"idle", "done"}

SeqNext ==
    \/ /\ NoneInFlight
       /\ \E c \in Calls :
             \/ ScheduleTaskNotification(c, SeqTasks, {Alex})
             \/ CancelTaskNotifications(c, {T1})
    \/ \E c \in Calls :
          \/ GetPermissionsAsync(c)
          \/ AwaitRequestPermissions(c)
          \/ GetAllScheduledNotificationsAsync(c)
          \/ CancelScheduledNotificationAsync(c)
          \/ AwaitCancelTaskNotifications(c)
          \/ ScheduleNotificationAsync(c)

SeqSpec == RaceInit /\ [][SeqNext]_vars

(***************************************************************************)
(* FrameSpec: successive calls about several tasks, one of them without an  *)
(* id, with the permission granted; the records of finished calls are kept. *)
(***************************************************************************)
FrameTasks ==
    { Task(T1, Milk, Day1, At0002),
      Task(T2, Eggs, Day1, At0003),
      Task(Undefined, Milk, Day1, At0003) }

FrameIds == {T1, Blank}

FrameNext ==
    \/ /\ NoneInFlight
       /\ \E c \in Calls :
             \/ ScheduleTaskNotification(c, FrameTasks, {Alex})
             \/ CancelTaskNotifications(c, FrameIds)
    \/ \E c \in Calls :
          \/ GetPermissionsAsync(c)
          \/ AwaitRequestPermissions(c)
          \/ GetAllScheduledNotificationsAsync(c)
          \/ CancelScheduledNotificationAsync(c)
          \/ AwaitCancelTaskNotifications(c)
          \/ ScheduleNotificationAsync(c)

FrameSpec == RaceInit /\ [][FrameNext]_vars

(***************************************************************************)
(* Properties.                                                              *)
(***************************************************************************)
Range(seq) == {seq[i] : i \in 1..Len(seq)}

PendingIds == {pending[i].identifier : i \in 1..Len(pending)}

\* positions of the pending reminders bound to a task identity
PendingFor(taskId) ==
    {i \in 1..Len(pending) : pending[i].content.data.taskId = taskId}

IsSchedule(c) == calls[c].op = "scheduleTaskNotification"
IsDone(c) == calls[c].pc = "done"

\* the instant the task's date and time parse to
InstantOf(task) == DateGetTime(DateTimeString(task))

\* a task with every field present and a date and time that parse
WellFormed(task) ==
    /\ Truthy(task.id) /\ Truthy(task.title)
    /\ Truthy(task.date) /\ Truthy(task.time)
    /\ InstantOf(task) # NaN

\* c1 returned before c2 was called, and no other call was made
Successive(c1, c2) ==
    /\ c1 \in calls[c2].after
    /\ \A d \in Calls \ {c1, c2} : calls[d].pc = "idle"

\* c1 and c2 were in flight at the same time, and no other call was made
Overlapping(c1, c2) ==
    /\ c1 # c2
    /\ calls[c1].pc # "idle" /\ calls[c2].pc # "idle"
    /\ c1 \notin calls[c2].after /\ c2 \notin calls[c1].after
    /\ \A d \in Calls \ {c1, c2} : calls[d].pc = "idle"

\* C1 (RaceSpec): for each task identity at most one pending reminder is
\* bound to it, in every reachable state.
C1_BindingInvariant ==
    \A i, j \in 1..Len(pending) :
        pending[i].content.data.taskId = pending[j].content.data.taskId => i = j

\* C2 as claimed (SeqSpec): after two successive schedule calls for the same
\* task identity, exactly one pending reminder is bound to it, and it has the
\* trigger instant and payload of the second call.
C2_SequentialUniqueness ==
    \A c1, c2 \in Calls :
        ( /\ IsSchedule(c1) /\ IsSchedule(c2) /\ IsDone(c2)
          /\ Successive(c1, c2)
          /\ calls[c1].task.id = calls[c2].task.id )
        => LET r == calls[c2]
               want == NotificationRequest(r.task, r.userName, r.taskDateTime)
           IN  /\ Cardinality(PendingFor(r.task.id)) = 1
               /\ \A i \in PendingFor(r.task.id) :
                     /\ pending[i].content = want.content
                     /\ pending[i].trigger = want.trigger

\* C2 as amended (SeqSpec): after two successive schedule calls for the same
\* task identity, the second of which returns a reminder identity, exactly
\* one pending reminder has that identity and it has the trigger instant and
\* payload of the second call; any other pending reminder bound to the task
\* is one the second call could not cancel: its list call failed or was not
\* made because the identity is blank, or the cancel call for it failed.
C2_SequentialReplacement ==
    \A c1, c2 \in Calls :
        ( /\ IsSchedule(c1) /\ IsSchedule(c2) /\ IsDone(c2)
          /\ Successive(c1, c2)
          /\ calls[c1].task.id = calls[c2].task.id
          /\ calls[c2].result # Null )
        => LET r == calls[c2]
               want == NotificationRequest(r.task, r.userName, r.taskDateTime)
               mine == {i \in 1..Len(pending) : pending[i].identifier = r.result}
           IN  /\ Cardinality(mine) = 1
               /\ \A i \in mine :
                     /\ pending[i].content = want.content
                     /\ pending[i].trigger = want.trigger
               /\ \A i \in PendingFor(r.task.id) \ mine :
                     \/ r.listed = "failed"
                     \/ ~Truthy(r.task.id) \/ ~Truthy(Trim(r.task.id))
                     \/ pending[i].identifier \in r.failed

\* C2 witness: the second of two successive calls has replaced the reminder
\* of the first, which had another trigger instant.
C2_Witness ==
    \E c1, c2 \in Calls :
        /\ IsSchedule(c1) /\ IsSchedule(c2) /\ IsDone(c2)
        /\ Successive(c1, c2)
        /\ calls[c1].task.id = calls[c2].task.id
        /\ calls[c1].result # Null /\ calls[c2].result # Null
        /\ calls[c1].taskDateTime # calls[c2].taskDateTime
        /\ calls[c2].taskNotifications = <<calls[c1].result>>
        /\ PendingIds = {calls[c2].result}

\* C3 (Spec): a schedule call for a task that lacks its identity, title, date
\* or time, or whose date and time do not parse, makes no platform call and
\* returns null.
C3_ValidityGate ==
    \A c \in Calls :
        (IsSchedule(c) /\ ~WellFormed(calls[c].task))
        => /\ calls[c].ports = {}
           /\ IsDone(c)
           /\ calls[c].result = Null

\* C4 (Spec): a schedule call whose permission check resolved false returns
\* null without a create call; the cancel and list operations ask for no
\* permission and, when no platform call fails, have their effect.
C4_PermissionGating ==
    \A c \in Calls :
        LET r == calls[c]
        IN  /\ (IsSchedule(c) /\ r.hasPermission = "false")
               => /\ r.pc \in {"requestPermissions", "done"}
                  /\ IsDone(c) => r.result = Null
                  /\ r.ports \cap { "getAllScheduledNotificationsAsync",
                                    "cancelScheduledNotificationAsync",
                                    "scheduleNotificationAsync" } = {}
            /\ r.op \in { "getScheduledNotifications", "cancelTaskNotifications",
                          "cancelAllNotifications" }
               => /\ r.hasPermission = "unset"
                  /\ r.ports \cap { "getPermissionsAsync", "requestPermissionsAsync",
                                    "requestPermissionsAsync_ios" } = {}
                  /\ (IsDone(c) /\ r.rejected = {} /\ os # "web")
                     => CASE r.op = "getScheduledNotifications" ->
                               r.result = pending
                          [] r.op = "cancelAllNotifications" ->
                               pending = <<>>
                          [] OTHER ->
                               Truthy(r.id) /\ Truthy(Trim(r.id))
                               => PendingFor(r.id) = {}

\* C4 witness: with the permission denied, a schedule call has returned null
\* at the permission check while a reminder is pending.
C4_Witness ==
    /\ permission = "denied"
    /\ pending # <<>>
    /\ \E c \in Calls :
          /\ IsSchedule(c) /\ IsDone(c)
          /\ WellFormed(calls[c].task)
          /\ calls[c].hasPermission = "false"
          /\ calls[c].rejected = {}

\* C5 (Spec): a schedule call for a well-formed task that was granted the
\* permission returns null, having listed, cancelled and created nothing,
\* when the task's instant is at most the clock reading plus 60 s, and goes
\* on to list the task's reminders and then to create when it is later.
C5_TemporalGate ==
    \A c \in Calls :
        LET r == calls[c]
        IN  ( /\ IsSchedule(c) /\ WellFormed(r.task)
              /\ Truthy(Trim(r.task.id))
              /\ r.hasPermission = "true" /\ r.pc # "requestPermissions" )
            => /\ r.now # Unset
               /\ IF NotAfter(InstantOf(r.task), FromMs(r.now + GuardMs))
                  THEN /\ IsDone(c) /\ r.result = Null
                       /\ r.ports \cap { "getAllScheduledNotificationsAsync",
                                         "cancelScheduledNotificationAsync",
                                         "scheduleNotificationAsync" } = {}
                  ELSE /\ "getAllScheduledNotificationsAsync" \in r.ports
                       /\ IsDone(c) => "scheduleNotificationAsync" \in r.ports

\* C5 witness: a call returned null for a task due exactly 60 s after the
\* clock reading it took.
C5_Witness ==
    \E c \in Calls :
        /\ IsSchedule(c) /\ IsDone(c) /\ WellFormed(calls[c].task)
        /\ calls[c].hasPermission = "true"
        /\ calls[c].now > 0
        /\ InstantOf(calls[c].task) = FromMs(calls[c].now + GuardMs)
        /\ calls[c].result = Null

\* the value an operation returns when it does nothing
Sentinel(op) ==
    IF op = "scheduleTaskNotification" THEN Null
    ELSE IF op = "getScheduledNotifications" THEN <<>> ELSE Void

NotGatekeeper(c) == calls[c].op \notin {"none", "requestPermissions"}

\* C6 (Spec): on the web no operation calls the platform, each returns its
\* sentinel at once, and the pending set and the listeners stay as they were.
C6_CapabilityAbsent ==
    os = "web" =>
        /\ pending = <<>> /\ nextId = 1 /\ listeners = 0
        /\ \A c \in Calls :
              NotGatekeeper(c)
              => /\ IsDone(c)
                 /\ calls[c].ports = {}
                 /\ ~calls[c].subscribed
                 /\ calls[c].result = Sentinel(calls[c].op)

\* C6 witness: initializeNotifications has returned on the web.
C6_Witness ==
    /\ os = "web"
    /\ \E c \in Calls : IsDone(c) /\ calls[c].op = "initializeNotifications"

\* C7 (SeqSpec): cancelTaskNotifications attempts the cancellation of every
\* reminder it found bound to the task, whichever of them fail; each one
\* whose cancel call did not fail is no longer pending; nothing is thrown.
C7_PartialCancellation ==
    \A c \in Calls :
        LET r == calls[c]
            attempted == Range(r.taskNotifications) \ Range(r.todo)
        IN  (r.op = "cancelTaskNotifications" /\ r.listed = "ok")
            => /\ IsDone(c) => r.todo = <<>>
               /\ r.failed \subseteq attempted
               /\ (attempted \ r.failed) \cap PendingIds = {}
               /\ ~r.threw

\* C7 witness: of the reminders bound to the task, the cancellation of the
\* first failed and that of a later one succeeded.
C7_Witness ==
    \E c \in Calls :
        LET r == calls[c]
        IN  /\ r.op = "cancelTaskNotifications" /\ IsDone(c)
            /\ Len(r.taskNotifications) >= 2
            /\ r.taskNotifications[1] \in r.failed
            /\ r.taskNotifications[2] \notin r.failed
            /\ r.taskNotifications[1] \in PendingIds
            /\ r.taskNotifications[2] \notin PendingIds

\* C8 (RaceSpec): when two schedule calls for one task identity overlapped
\* and both have created their reminder, no platform call having failed, the
\* only pending reminder bound to the task is the one created last.
C8_LastCreateSurvives ==
    \A c1, c2 \in Calls :
        ( /\ IsSchedule(c1) /\ IsSchedule(c2)
          /\ Overlapping(c1, c2)
          /\ IsDone(c1) /\ IsDone(c2)
          /\ calls[c1].task.id = calls[c2].task.id
          /\ calls[c1].result # Null /\ calls[c2].result # Null
          /\ calls[c1].rejected = {} /\ calls[c2].rejected = {} )
        => { pending[i].identifier : i \in PendingFor(calls[c1].task.id) }
              = {IdOf(nextId - 1)}

\* C9 (Spec): when a schedule call issues its create request, its list call
\* has been answered and a cancellation was attempted, and answered, for
\* every reminder the list found; it lists and cancels nothing afterwards.
C9_CancelBeforeCreate ==
    \A c \in Calls :
        LET r == calls[c]
        IN  (IsSchedule(c) /\ "scheduleNotificationAsync" \in r.ports)
            => /\ r.pc \in {"scheduleNotificationAsync", "done"}
               /\ r.todo = <<>>
               /\ (Truthy(r.task.id) /\ Truthy(Trim(r.task.id)))
                  => r.listed \in {"ok", "failed"}
               /\ r.listed = "ok"
                  => \A id \in Range(r.taskNotifications) :
                        id \in r.failed \/ id \notin PendingIds

\* C9 witness: a create request is outstanding after the call cancelled the
\* reminder it found.
C9_Witness ==
    \E c \in Calls :
        /\ IsSchedule(c)
        /\ calls[c].pc = "scheduleNotificationAsync"
        /\ calls[c].taskNotifications # <<>>
        /\ calls[c].failed = {}
        /\ pending = <<>>

\* C10 as claimed (Spec): no operation throws to its caller; whichever
\* platform call of it failed, schedule has returned null,
\* getScheduledNotifications the empty sequence and the other operations
\* have returned normally.
C10_FailSoftAnyPort ==
    \A c \in Calls :
        LET r == calls[c]
        IN  /\ ~r.threw
            /\ (IsDone(c) /\ r.rejected # {})
               => CASE r.op = "scheduleTaskNotification" -> r.result = Null
                    [] r.op = "getScheduledNotifications" -> r.result = <<>>
                    [] r.op = "requestPermissions" -> r.result \in {<<TRUE>>, <<FALSE>>}
                    [] r.op = "initializeNotifications" -> r.result \in {Void, Cleanup}
                    [] OTHER -> r.result = Void

\* C10 as amended (Spec): no operation throws to its caller; schedule returns
\* null when its permission query, its permission prompt or its create call
\* failed, whereas a failed iOS request is swallowed and leaves the
\* permission check true, and a failed list or cancel call of its
\* cancellation step is swallowed too: the call goes on to its create call
\* and, when that succeeds, returns the identifier of the request created;
\* getScheduledNotifications returns the empty sequence and the other
\* operations return normally (nothing, or for initializeNotifications the
\* closure that removes its listener).
C10_FailSoft ==
    \A c \in Calls :
        LET r == calls[c]
        IN  /\ ~r.threw
            /\ (IsSchedule(c) /\ "requestPermissionsAsync_ios" \in r.rejected)
               => r.hasPermission = "true"
            /\ (IsDone(c) /\ r.rejected # {})
               => CASE r.op = "scheduleTaskNotification" ->
                         /\ (r.rejected \cap { "getPermissionsAsync",
                                               "requestPermissionsAsync",
                                               "scheduleNotificationAsync" } # {})
                            => r.result = Null
                         /\ (r.rejected \cap
                                 { "getAllScheduledNotificationsAsync",
                                   "cancelScheduledNotificationAsync" } # {})
                            => /\ "scheduleNotificationAsync" \in r.ports
                               /\ "scheduleNotificationAsync" \notin r.rejected
                                  => r.result \in PendingIds
                    [] r.op = "getScheduledNotifications" -> r.result = <<>>
                    [] r.op = "requestPermissions" -> r.result \in {<<TRUE>>, <<FALSE>>}
                    [] r.op = "initializeNotifications" ->
                         /\ r.result \in {Void, Cleanup}
                         /\ "addNotificationResponseReceivedListener" \in r.rejected
                            => r.result = Void /\ ~r.subscribed
                    [] OTHER -> r.result = Void

\* C10 witness: a schedule call whose list call was rejected has gone on to
\* its create call, and has returned null after that was rejected too.
C10_Witness ==
    \E c \in Calls :
        /\ IsSchedule(c) /\ IsDone(c)
        /\ "getAllScheduledNotificationsAsync" \in calls[c].rejected
        /\ "scheduleNotificationAsync" \in calls[c].rejected
        /\ calls[c].result = Null
        /\ ~calls[c].threw

\* the calls of requestPermissions: its own and those made at lines 60 and 189
AskedPermission(c) == calls[c].hasPermission # "unset"

\* C11 (Spec): off the web, requestPermissions returns true exactly when the
\* status it ends with is granted; the prompt is issued only after a status
\* other than granted was read; a failed status query or prompt gives false;
\* a failed second (iOS) request leaves the result true; nothing is thrown.
C11_GatekeeperResult ==
    os # "web" =>
        \A c \in Calls :
            LET r == calls[c]
            IN  /\ ~r.threw
                /\ "requestPermissionsAsync" \in r.ports
                   => r.existingStatus \in {"denied", "undetermined"}
                /\ "requestPermissionsAsync_ios" \in r.ports
                   => r.finalStatus = "granted"
                /\ AskedPermission(c)
                   => /\ r.hasPermission = "true" <=> r.finalStatus = "granted"
                      /\ r.existingStatus = "granted" => r.hasPermission = "true"
                      /\ r.rejected \cap { "getPermissionsAsync",
                                           "requestPermissionsAsync" } # {}
                         => r.hasPermission = "false"
                      /\ "requestPermissionsAsync_ios" \in r.rejected
                         => r.hasPermission = "true"
                      /\ (r.op = "requestPermissions" /\ IsDone(c))
                         => r.result = <<r.hasPermission = "true">>

\* C11 witness: on iOS the prompt granted the permission, the second request
\* failed and requestPermissions returned true.
C11_Witness ==
    \E c \in Calls :
        /\ calls[c].op = "requestPermissions" /\ IsDone(c)
        /\ calls[c].existingStatus = "undetermined"
        /\ calls[c].finalStatus = "granted"
        /\ "requestPermissionsAsync_ios" \in calls[c].rejected
        /\ calls[c].result = <<TRUE>>

\* C12 (Spec): initializeNotifications attaches the response listener only
\* when its requestPermissions returned true.
C12_ObserverGated ==
    \A c \in Calls :
        (calls[c].op = "initializeNotifications" /\ calls[c].subscribed)
        => calls[c].hasPermission = "true"

\* C13 (Spec): however many times initializeNotifications has run, at most
\* one response listener is attached.
C13_SingleObserver == listeners <= 1

\* the placeholder that stands for a user name that is empty or blank
Placeholder == <<"U", "s", "e", "r">>

\* the step in which call c's scheduleNotificationAsync resolves
Created(c) ==
    /\ calls[c].pc = "scheduleNotificationAsync"
    /\ Len(pending') = Len(pending) + 1

\* what the claim says of the request n of the call whose record is r, given
\* the name that follows the title's prefix
PayloadAs(r, n, name) ==
    /\ n.content.title = TitlePrefix \o name
    /\ n.content.body = BodyPrefix \o r.task.title
    /\ n.content.data = [taskId |-> r.task.id, taskTitle |-> r.task.title]
    /\ n.trigger.date = InstantOf(r.task)

\* what the claim says of the create call of call c: the request it hands
\* over while the call is outstanding, and, in the step in which the
\* platform assigns it an identifier, the request that is pending then and
\* the value the call returns
CreatedAs(c, name) ==
    /\ calls[c].pc = "scheduleNotificationAsync"
       => PayloadAs(calls[c],
                    NotificationRequest(calls[c].task, calls[c].userName,
                                        calls[c].taskDateTime), name)
    /\ Created(c)
       => /\ PayloadAs(calls[c], pending'[Len(pending')], name)
          /\ calls'[c].pc = "done"
          /\ calls'[c].result = pending'[Len(pending')].identifier
          /\ \A i \in 1..Len(pending) :
                pending[i].identifier # pending'[Len(pending')].identifier

\* C14 as stated (Spec): the title is the prefix followed by the display name
\* as given, or by the placeholder when nothing is left of that name once
\* its white space is trimmed (it is empty or blank).
C14_CreatePayloadVerbatim ==
    [][\A c \in Calls :
          CreatedAs(c, IF ~Truthy(Trim(calls[c].userName)) THEN Placeholder
                       ELSE calls[c].userName)]_vars

\* C14 amended (Spec): every create call of scheduleTaskNotification has the
\* title prefix followed by the display name without its leading and
\* trailing white space (the placeholder when nothing is left of it),
\* the body prefix followed by the task's title, data exactly {taskId,
\* taskTitle} and the parsed instant as trigger, and the call returns the
\* identifier the platform assigned to that create call.
C14_CreatePayload ==
    [][\A c \in Calls :
          CreatedAs(c, IF ~Truthy(Trim(calls[c].userName)) THEN Placeholder
                       ELSE Trim(calls[c].userName))]_vars

\* C14 witness: a call with a user name that has a leading blank returned the
\* identifier of the pending request it created, whose title has the name
\* trimmed.
C14_Witness ==
    \E c \in Calls : \E i \in 1..Len(pending) :
        /\ IsSchedule(c) /\ IsDone(c)
        /\ calls[c].userName = Alex
        /\ calls[c].result = pending[i].identifier
        /\ pending[i].content.title = TitlePrefix \o Trim(Alex)
        /\ pending[i].trigger.date = InstantOf(calls[c].task)

\* call c took a step
Stepped(c) == calls'[c] # calls[c]

\* call c is over, returned null and asked the platform to create nothing
Refused(r) ==
    /\ r.pc = "done" /\ r.result = Null
    /\ "scheduleNotificationAsync" \notin r.ports

\* the requestPermissions of call c has resolved false
Denied(r) == r.pc = "requestPermissions" /\ r.hasPermission = "false"

\* C15 as claimed (Spec): a scheduleTaskNotification call that reads a status
\* other than granted while a request created by an earlier call is pending,
\* so after the permission that call had was revoked, issues no create call
\* and returns null.
C15_RevokedRefused ==
    \A c \in Calls :
        ( /\ IsSchedule(c)
          /\ calls[c].existingStatus \in {"denied", "undetermined"}
          /\ \E i \in 1..Len(pending) : pending[i].identifier # calls[c].result )
        => /\ "scheduleNotificationAsync" \notin calls[c].ports
           /\ IsDone(c) => calls[c].result = Null

\* C15 as amended (Spec): off the web every scheduleTaskNotification call
\* reads the platform's permission status itself, and creates only if that
\* reading or its own prompt said granted; a call that finds the status not
\* granted, and whose prompt leaves it so, returns null without a create,
\* whatever an earlier call was allowed to do.
C15_NoCachedGrant ==
    /\ [](os # "web" =>
           \A c \in Calls :
               (IsSchedule(c) /\ calls[c].pc # "idle")
               => /\ "getPermissionsAsync" \in calls[c].ports
                  /\ "scheduleNotificationAsync" \in calls[c].ports
                     => calls[c].finalStatus = "granted"
                  /\ calls[c].hasPermission = "false"
                     => Denied(calls[c]) \/ Refused(calls[c]))
    /\ [][os # "web" =>
           \A c \in Calls :
               (IsSchedule(c) /\ Stepped(c))
               => /\ (calls[c].pc = "getPermissionsAsync"
                      /\ permission # "granted")
                     => \/ calls'[c].pc = "requestPermissionsAsync"
                        \/ Denied(calls'[c])
                  /\ (calls[c].pc = "requestPermissionsAsync"
                      /\ permission' # "granted")
                     => Denied(calls'[c])
                  /\ Denied(calls[c]) => Refused(calls'[c])]_vars

\* C15 witness: a request created by an earlier call is pending, the
\* permission has been withdrawn since, and the next call read the status
\* denied and returned null without a create.
C15_Witness ==
    \E c \in Calls :
        /\ IsSchedule(c) /\ Refused(calls[c])
        /\ calls[c].existingStatus = "denied"
        /\ calls[c].finalStatus = "denied"
        /\ permission = "denied"
        /\ Len(pending) > 0

\* C16 (Spec): every pending request carries a taskId and a taskTitle that
\* are present and not empty, and no scheduleTaskNotification call asks the
\* platform to create a request for a task whose id is missing or empty.
C16_WellFormedBindings ==
    /\ \A i \in 1..Len(pending) :
          /\ Truthy(pending[i].content.data.taskId)
          /\ Truthy(pending[i].content.data.taskTitle)
    /\ \A c \in Calls :
          (IsSchedule(c) /\ "scheduleNotificationAsync" \in calls[c].ports)
          => Truthy(calls[c].task.id)

\* the pending requests whose data.taskId is not taskId, in order
NotBoundTo(seq, taskId) ==
    LET Other(n) == n.content.data.taskId # taskId IN SelectSeq(seq, Other)

IsCancelForTask(c) == calls[c].op = "cancelTaskNotifications"

\* C17 (FrameSpec): cancelTaskNotifications(taskId) asks the platform to
\* cancel only requests whose data.taskId is taskId, every step of it leaves
\* the requests with another taskId, or none, pending and as they were, and
\* with an empty or blank taskId it makes no platform call.
C17_CancelForTaskFrame ==
    /\ [](\A c \in Calls :
            IsCancelForTask(c)
            => /\ ~Truthy(Trim(calls[c].id)) => calls[c].ports = {}
               /\ calls[c].ports \subseteq { "getAllScheduledNotificationsAsync",
                                             "cancelScheduledNotificationAsync" })
    /\ [][\A c \in Calls :
            (IsCancelForTask(c) /\ Stepped(c))
            => /\ NotBoundTo(pending', calls[c].id) = NotBoundTo(pending, calls[c].id)
               /\ calls[c].pc = "cancelScheduledNotificationAsync"
                  => \A n \in Range(pending) \ Range(pending') :
                        /\ n.content.data.taskId = calls[c].id
                        /\ n.identifier = Head(calls[c].todo)]_vars

\* C17 witness: cancelTaskNotifications('t1') has cancelled the request of t1
\* with no platform failure while a request of another task stays pending.
C17_Witness ==
    \E c \in Calls :
        /\ IsCancelForTask(c) /\ IsDone(c)
        /\ calls[c].id = T1
        /\ calls[c].taskNotifications # <<>>
        /\ calls[c].rejected = {}
        /\ PendingFor(T1) = {}
        /\ Len(pending) > 0

\* the platform calls that read or change the pending set
PendingPorts ==
    { "getAllScheduledNotificationsAsync", "cancelScheduledNotificationAsync",
      "scheduleNotificationAsync" }

\* the call whose record is r stands at one of the gates of
\* scheduleTaskNotification: no capability, permission not granted, a title,
\* date or time missing, an instant that does not parse, or one that is at
\* most 60 s after the clock reading
AtGate(r) ==
    \/ os = "web"
    \/ r.hasPermission = "false" /\ r.pc # "requestPermissions"
    \/ /\ r.hasPermission = "true" /\ r.pc # "requestPermissions"
       /\ \/ ~Truthy(r.task.title) \/ ~Truthy(r.task.date) \/ ~Truthy(r.task.time)
          \/ InstantOf(r.task) = NaN
          \/ r.now # Unset /\ NotAfter(InstantOf(r.task), FromMs(r.now + GuardMs))

\* C18 (Spec): a scheduleTaskNotification call that stands at a gate has
\* returned null and has made no list, cancel or create call, and every step
\* of a call that has made none of these leaves the pending requests exactly
\* as they were.
C18_GateFrame ==
    /\ [](\A c \in Calls :
            (IsSchedule(c) /\ AtGate(calls[c]))
            => /\ IsDone(c) /\ calls[c].result = Null
               /\ calls[c].ports \cap PendingPorts = {})
    /\ [][\A c \in Calls :
            ( /\ calls'[c].op = "scheduleTaskNotification" /\ Stepped(c)
              /\ calls'[c].ports \cap PendingPorts = {} )
            => pending' = pending]_vars

\* C18 witness: a call for t1 was stopped at the permission gate and the
\* request pending for t1 still has the trigger an earlier call gave it, not
\* the instant of this call's task.
C18_Witness ==
    \E c \in Calls : \E i \in PendingFor(T1) :
        /\ IsSchedule(c) /\ IsDone(c) /\ AtGate(calls[c])
        /\ calls[c].task.id = T1
        /\ WellFormed(calls[c].task)
        /\ pending[i].trigger.date # InstantOf(calls[c].task)

\* C19 (Spec): when a scheduleTaskNotification call has passed every gate and
\* its create call is the only platform call of it that failed, it has
\* returned null and no request bound to the task's id is pending.
C19_CreateFailureLeavesNone ==
    \A c \in Calls :
        ( /\ IsSchedule(c) /\ IsDone(c)
          /\ calls[c].rejected = {"scheduleNotificationAsync"} )
        => /\ calls[c].result = Null
           /\ PendingFor(calls[c].task.id) = {}

\* C20 (RaceSpec): when cancelTaskNotifications(t) has returned, every call
\* has finished, no platform call has failed and no scheduleTaskNotification
\* for t was called after it (calls are numbered in the order they were
\* made), no request bound to t is pending.
C20_CancelWins ==
    \A c \in Calls :
        ( /\ IsCancelForTask(c) /\ IsDone(c)
          /\ \A d \in Calls : /\ calls[d].pc \in {"idle", "done"}
                              /\ calls[d].rejected = {}
          /\ \A d \in Calls :
                (d > c /\ IsSchedule(d)) => calls[d].task.id # calls[c].id )
        => PendingFor(calls[c].id) = {}

====
